---- MODULE Spec2Model ----
(***************************************************************************)
(* AsyncRateLimiter (google/cloud/sql/connector/rate_limiter.py): a token  *)
(* bucket guarded by a threading.Lock that coroutines take through a       *)
(* ThreadPoolExecutor.                                                     *)
(*                                                                         *)
(* Numbers.  loop.time() is an integer count of clock ticks.  _tokens is   *)
(* a float in the source; here it is a fixed-point integer with ONE units  *)
(* to the token, and rate is in units per tick, so time_elapsed * rate is  *)
(* exact.  wait_time = token_deficit / rate is kept as the exact fraction  *)
(* waitNum / rate and never rounded: a sleep is over when                  *)
(* (clock - sleepStart) * rate >= waitNum.                                 *)
(*                                                                         *)
(* Steps.  The code between two awaits of a coroutine is one step: it      *)
(* reads the clock once and no other holder of the lock can run in it.     *)
(* The pool's worker threads are steps of their own.                       *)
(***************************************************************************)
EXTENDS Integers, Sequences, FiniteSets, TLC

(* ---------------- bounds of the model ---------------- *)
NumTasks == 3
MaxCalls == 4
MaxTime == 2
MaxWorkers == 2

(* fixed-point image of the literal 1 (one token) *)
ONE == 2

Tasks == 1..NumTasks
Rates == {1, 2}
Capacities == {1, 2}
BadRates == {-1, 0}
BadCapacities == {0}

VARIABLES
  rate,          \* self.rate, units of token per tick
  max_capacity,  \* self.max_capacity, whole tokens
  max_workers,   \* self._pool._max_workers, set by ThreadPoolExecutor() from the machine
  clock,         \* self._loop.time()
  tokens,        \* self._tokens, fixed point
  lastUpdate,    \* self._last_token_update
  locked,        \* self._lock is held
  queue,         \* self._pool: submitted lock.acquire calls no worker has taken
  running,       \* self._pool: lock.acquire calls a worker is blocked in
  granted,       \* granted[t]: the lock.acquire submitted for t has returned and not been released
  pc,            \* where each task's acquire() stands
  sleepStart,    \* clock at the call of asyncio.sleep
  waitNum,       \* token_deficit of the pending sleep (wait_time = waitNum / rate)
  calls,         \* acquire() calls started so far
  admitted,      \* history: one record per debit
  lastLeave,     \* history: clock when the lock was last released
  stalled,       \* history: tasks whose pending lock.acquire has sat in a saturated pool
  observed       \* history: the latest first _update_token_count of a call

vars == <<rate, max_capacity, max_workers, clock, tokens, lastUpdate, locked, queue, running,
          granted, pc, sleepStart, waitNum, calls, admitted, lastLeave, stalled, observed>>

config == <<rate, max_capacity, max_workers>>
bucket == <<tokens, lastUpdate>>
pool == <<queue, running>>
sleep == <<sleepStart, waitNum>>
hist == <<admitted, lastLeave, observed>>

Min(a, b) == IF a <= b THEN a ELSE b

NoObservation == [before |-> 0, after |-> 0, since |-> 0, idle |-> 0, at |-> -1, sleeps |-> FALSE]

(* ---------------- __init__ ---------------- *)
\* variant: _last_token_update is read from another clock, ahead of loop.time()
ConstructOtherClock(r, c, w) ==
  /\ rate = r
  /\ max_capacity = c
  /\ max_workers = w
  /\ clock = 0
  /\ tokens = c * ONE
  /\ lastUpdate = 1
  /\ locked = FALSE
  /\ queue = <<>>
  /\ running = {}
  /\ granted = [t \in Tasks |-> FALSE]
  /\ pc = [t \in Tasks |-> "idle"]
  /\ sleepStart = [t \in Tasks |-> 0]
  /\ waitNum = [t \in Tasks |-> 0]
  /\ calls = 0
  /\ admitted = <<>>
  /\ lastLeave = 0
  /\ stalled = {}
  /\ observed = NoObservation

Construct(r, c, w) ==
  /\ rate = r
  /\ max_capacity = c
  /\ max_workers = w
  /\ clock = 0
  /\ tokens = c * ONE
  /\ lastUpdate = 0
  /\ locked = FALSE
  /\ queue = <<>>
  /\ running = {}
  /\ granted = [t \in Tasks |-> FALSE]
  /\ pc = [t \in Tasks |-> "idle"]
  /\ sleepStart = [t \in Tasks |-> 0]
  /\ waitNum = [t \in Tasks |-> 0]
  /\ calls = 0
  /\ admitted = <<>>
  /\ lastLeave = 0
  /\ stalled = {}
  /\ observed = NoObservation

Init == \E r \in Rates, c \in Capacities : Construct(r, c, MaxWorkers)

InitAnyConfig ==
  \E r \in Rates \cup BadRates, c \in Capacities \cup BadCapacities : Construct(r, c, MaxWorkers)

\* a pool of any size from one worker up
InitAnyPool == \E r \in Rates, c \in Capacities, w \in 1..MaxWorkers : Construct(r, c, w)

(* ---------------- _update_token_count ---------------- *)
\* variant: the elapsed time is not credited
UpdateTokenCountNoRefill(tok, last, now) ==
  IF tok <= max_capacity * ONE THEN tok ELSE max_capacity * ONE

\* variant: the min(..., self.max_capacity) is dropped
UpdateTokenCountUncapped(tok, last, now) ==
  (now - last) * rate + tok

UpdateTokenCount(tok, last, now) ==
  Min((now - last) * rate + tok, max_capacity * ONE)

(* ---------------- acquire: if self._tokens < 1 ---------------- *)
\* variant: the test is <= 1
NeedsWaitInclusive(tok) == tok <= ONE

NeedsWait(tok) == tok < ONE

(* ---------------- _wait_for_next_token ---------------- *)
\* variant: half the deficit is waited for
TokenDeficitHalved(tok) == (ONE - tok) \div 2

TokenDeficit(tok) == ONE - tok

\* variant: the sleep returns without waiting out the deficit
SleepOverEarly(t) ==
  TRUE

\* asyncio.sleep(wait_time) has returned: at once for a delay <= 0, else
\* no earlier than wait_time after the call.
SleepOver(t) ==
  \/ waitNum[t] <= 0
  \/ rate < 0
  \/ rate > 0 /\ (clock - sleepStart[t]) * rate >= waitNum[t]

(* ---------------- the lock ---------------- *)
\* variant: lock.acquire does not block
LockFreeAlways == TRUE

\* lock.acquire can return
LockFree == ~locked

InCriticalSection(t) == granted[t] /\ pc[t] \in {"awaitLock", "sleeping"}

\* variant: the lock is not released on the way out
ReleaseForgotten(t) ==
  /\ locked' = TRUE
  /\ granted' = [granted EXCEPT ![t] = FALSE]
  /\ lastLeave' = clock

\* variant: lock.release is handed to the pool like lock.acquire
ReleaseThroughPool(t) ==
  /\ Cardinality(running) < max_workers
  /\ locked' = FALSE
  /\ granted' = [granted EXCEPT ![t] = FALSE]
  /\ lastLeave' = clock

\* finally: lock.release()
Release(t) ==
  /\ locked' = FALSE
  /\ granted' = [granted EXCEPT ![t] = FALSE]
  /\ lastLeave' = clock

Admission(t, slept, start) ==
  [task |-> t, time |-> clock, slept |-> slept, start |-> start, stalled |-> t \in stalled]

(* ---------------- the pool ---------------- *)
InAcquire(t) == pc[t] \in {"awaitLock", "sleeping"}

Range(q) == {q[i] : i \in 1..Len(q)}

\* every worker of the pool is blocked in lock.acquire, more requests are
\* queued behind them, and a call holds the lock
PoolSaturated ==
  /\ Cardinality(running) = max_workers
  /\ queue # <<>>
  /\ \E t \in Tasks : granted[t] /\ InAcquire(t)

\* history: a request found in a saturated pool is remembered until its call ends
Track ==
  stalled' = {t \in stalled \cup (IF PoolSaturated' THEN Range(queue') \cup running' ELSE {}) :
                InAcquire(t)'}

(* ---------------- what each step waits for ---------------- *)
CanCall(t) == pc[t] = "idle" /\ calls < MaxCalls
CanTake == queue # <<>> /\ Cardinality(running) < max_workers
CanAcquire(t) == t \in running /\ LockFree
CanEnter(t) == pc[t] = "awaitLock" /\ granted[t]
CanWake(t) == pc[t] = "sleeping" /\ SleepOver(t)

\* some thread or coroutine is ready to run
Runnable ==
  \/ CanTake
  \/ \E t \in Tasks : CanCall(t) \/ CanAcquire(t) \/ CanEnter(t) \/ CanWake(t)

(* ---------------- the clock ---------------- *)
\* variant: a background timer credits tokens as the clock moves
TickRefilling ==
  /\ \/ clock < MaxTime
     \/ \E t \in Tasks : pc[t] = "sleeping" /\ ~SleepOver(t)
  /\ clock' = clock + 1
  /\ tokens' = Min(tokens + rate, max_capacity * ONE)
  /\ lastUpdate' = clock + 1
  /\ UNCHANGED <<config, locked, pool, granted, pc, sleep, calls, hist>>
  /\ Track

Tick ==
  /\ \/ clock < MaxTime
     \/ \E t \in Tasks : pc[t] = "sleeping" /\ ~SleepOver(t)
  /\ clock' = clock + 1
  /\ UNCHANGED <<config, bucket, locked, pool, granted, pc, sleep, calls, hist>>
  /\ Track

(* ---------------- acquire(), up to the first await ---------------- *)
\* async with self.async_lock(self._lock): loop.run_in_executor(self._pool, lock.acquire)
Call(t) ==
  /\ CanCall(t)
  /\ calls' = calls + 1
  /\ pc' = [pc EXCEPT ![t] = "awaitLock"]
  /\ queue' = Append(queue, t)
  /\ UNCHANGED <<config, clock, bucket, locked, running, granted, sleep, hist>>
  /\ Track

\* a worker thread of the pool takes the next work item and calls lock.acquire
WorkerTake ==
  /\ CanTake
  /\ running' = running \cup {Head(queue)}
  /\ queue' = Tail(queue)
  /\ UNCHANGED <<config, clock, bucket, locked, granted, pc, sleep, calls, hist>>
  /\ Track

\* lock.acquire returns in the worker; the future of run_in_executor is done
WorkerAcquire(t) ==
  /\ CanAcquire(t)
  /\ locked' = TRUE
  /\ granted' = [granted EXCEPT ![t] = TRUE]
  /\ running' = running \ {t}
  /\ UNCHANGED <<config, clock, bucket, queue, pc, sleep, calls, hist>>
  /\ Track

(* ---------------- acquire(), the body under the lock ---------------- *)
Enter(t) ==
  /\ CanEnter(t)
  /\ LET tok == UpdateTokenCount(tokens, lastUpdate, clock) IN
       /\ lastUpdate' = clock
       /\ observed' = [before |-> tokens, after |-> tok, since |-> clock - lastUpdate,
                       idle |-> clock - lastLeave, at |-> clock, sleeps |-> NeedsWait(tok)]
       /\ IF NeedsWait(tok)
            THEN IF rate = 0
                   THEN \* token_deficit / self.rate raises ZeroDivisionError
                        /\ tokens' = tok
                        /\ pc' = [pc EXCEPT ![t] = "failed"]
                        /\ Release(t)
                        /\ UNCHANGED <<sleep, admitted>>
                   ELSE \* await asyncio.sleep(wait_time)
                        /\ tokens' = tok
                        /\ pc' = [pc EXCEPT ![t] = "sleeping"]
                        /\ sleepStart' = [sleepStart EXCEPT ![t] = clock]
                        /\ waitNum' = [waitNum EXCEPT ![t] = TokenDeficit(tok)]
                        /\ UNCHANGED <<locked, granted, admitted, lastLeave>>
            ELSE \* self._tokens -= 1
                 /\ tokens' = tok - ONE
                 /\ pc' = [pc EXCEPT ![t] = "idle"]
                 /\ admitted' = Append(admitted, Admission(t, FALSE, clock))
                 /\ Release(t)
                 /\ UNCHANGED sleep
  /\ UNCHANGED <<config, clock, pool, calls>>
  /\ Track

\* variant: the second update leaves _last_token_update alone
WakeKeepsTimestamp(t) ==
  /\ CanWake(t)
  /\ tokens' = UpdateTokenCount(tokens, lastUpdate, clock) - ONE
  /\ pc' = [pc EXCEPT ![t] = "idle"]
  /\ admitted' = Append(admitted, Admission(t, TRUE, sleepStart[t]))
  /\ Release(t)
  /\ UNCHANGED <<config, clock, lastUpdate, pool, sleep, calls, observed>>
  /\ Track

\* the sleep returns: second _update_token_count, debit, release
Wake(t) ==
  /\ CanWake(t)
  /\ LET tok == UpdateTokenCount(tokens, lastUpdate, clock) IN
       /\ lastUpdate' = clock
       /\ tokens' = tok - ONE
  /\ pc' = [pc EXCEPT ![t] = "idle"]
  /\ admitted' = Append(admitted, Admission(t, TRUE, sleepStart[t]))
  /\ Release(t)
  /\ UNCHANGED <<config, clock, pool, sleep, calls, observed>>
  /\ Track

(* ---------------- cancellation of the task running acquire() ---------------- *)
\* variant: the token is debited before the wait
CancelWaitDebits(t) ==
  /\ pc[t] = "sleeping"
  /\ pc' = [pc EXCEPT ![t] = "cancelled"]
  /\ tokens' = tokens - ONE
  /\ Release(t)
  /\ UNCHANGED <<config, clock, lastUpdate, pool, sleep, calls, admitted, observed>>
  /\ Track

\* variant: the yield is not inside try/finally
CancelWaitKeepsLock(t) ==
  /\ pc[t] = "sleeping"
  /\ pc' = [pc EXCEPT ![t] = "cancelled"]
  /\ UNCHANGED <<config, clock, bucket, locked, granted, pool, sleep, calls, hist>>
  /\ Track

\* CancelledError is thrown at "yield" inside the try: the finally releases the lock
CancelWait(t) ==
  /\ pc[t] = "sleeping"
  /\ pc' = [pc EXCEPT ![t] = "cancelled"]
  /\ Release(t)
  /\ UNCHANGED <<config, clock, bucket, pool, sleep, calls, admitted, observed>>
  /\ Track

\* CancelledError is thrown at "await loop.run_in_executor(...)", before the try.
\* A work item no worker has taken is cancelled with the future; one that a
\* worker is running (or has finished) is not, and its lock.acquire stands.
CancelLock(t) ==
  /\ pc[t] = "awaitLock"
  /\ pc' = [pc EXCEPT ![t] = "cancelled"]
  /\ queue' = SelectSeq(queue, LAMBDA u : u # t)
  /\ UNCHANGED <<config, clock, bucket, locked, running, granted, sleep, calls, hist>>
  /\ Track

Next ==
  \/ Tick
  \/ WorkerTake
  \/ \E t \in Tasks : Call(t)
  \/ \E t \in Tasks : WorkerAcquire(t)
  \/ \E t \in Tasks : Enter(t)
  \/ \E t \in Tasks : Wake(t)
  \/ \E t \in Tasks : CancelWait(t)
  \/ \E t \in Tasks : CancelLock(t)

Spec == Init /\ [][Next]_vars

\* any constructor arguments: __init__ checks none
SpecAnyConfig == InitAnyConfig /\ [][Next]_vars

(* ---------------- scheduling ---------------- *)
\* Time passes, pool workers run, and the event loop resumes a coroutine
\* whose future is done or whose timer is due.  Nothing makes a task call
\* acquire(), and nothing makes anyone cancel.
Fairness ==
  /\ WF_vars(Tick)
  /\ WF_vars(WorkerTake)
  /\ \A t \in Tasks : WF_vars(WorkerAcquire(t)) /\ WF_vars(Enter(t)) /\ WF_vars(Wake(t))

NextNoCancel ==
  \/ Tick
  \/ WorkerTake
  \/ \E t \in Tasks : Call(t)
  \/ \E t \in Tasks : WorkerAcquire(t)
  \/ \E t \in Tasks : Enter(t)
  \/ \E t \in Tasks : Wake(t)

\* no task is ever cancelled
FairSpecNoCancel == Init /\ [][NextNoCancel]_vars /\ Fairness

NextCancelWait ==
  \/ NextNoCancel
  \/ \E t \in Tasks : CancelWait(t)

\* no task is ever cancelled, and the pool has any size
FairSpecAnyPool == InitAnyPool /\ [][NextNoCancel]_vars /\ Fairness

\* tasks are cancelled only in the deficit wait
FairSpecCancelWait == Init /\ [][NextCancelWait]_vars /\ Fairness

\* No scheduler delay: the clock moves only when nothing is ready to run and
\* a sleeper is waiting for it.  Sustained demand: a task that can call
\* acquire() is ready to run, so it calls before the clock moves.
PromptTick ==
  /\ ~Runnable
  /\ \E t \in Tasks : pc[t] = "sleeping"
  /\ Tick

NextSteady ==
  \/ PromptTick
  \/ WorkerTake
  \/ \E t \in Tasks : Call(t)
  \/ \E t \in Tasks : WorkerAcquire(t)
  \/ \E t \in Tasks : Enter(t)
  \/ \E t \in Tasks : Wake(t)

SpecSteady == Init /\ [][NextSteady]_vars

(* ---------------- types ---------------- *)
TypeOK ==
  /\ rate \in Int /\ max_capacity \in Int /\ max_workers \in 1..MaxWorkers
  /\ clock \in Nat /\ tokens \in Int /\ lastUpdate \in Nat
  /\ locked \in BOOLEAN
  /\ granted \in [Tasks -> BOOLEAN]
  /\ pc \in [Tasks -> {"idle", "awaitLock", "sleeping", "cancelled", "failed"}]
  /\ running \subseteq Tasks
  /\ calls \in 0..MaxCalls

(* ======================================================================= *)
(* Properties                                                              *)
(* ======================================================================= *)
Last(s) == s[Len(s)]

\* C1 -- capacity bound: for max_capacity >= 1 and rate > 0 the stored token
\* count is never negative and never above max_capacity, after every
\* _update_token_count and after every debit.
CapacityBound ==
  /\ 0 <= tokens
  /\ tokens <= max_capacity * ONE
  /\ 0 <= observed.after
  /\ observed.after <= max_capacity * ONE

\* a call slept out a deficit, was debited, and left the bucket empty
CapacityBoundWitness ==
  /\ admitted # <<>>
  /\ Last(admitted).slept
  /\ tokens = 0
  /\ clock > 0

\* C2 -- token-bucket conformance: the admissions inside any time window
\* [t, t+W] number at most max_capacity + rate * W.
Conformance ==
  \A i \in 1..Len(admitted) : \A j \in i..Len(admitted) :
    (j - i + 1) * ONE <= max_capacity * ONE + rate * (admitted[j].time - admitted[i].time)

\* three admissions of three tasks fill a window of positive length to the limit
ConformanceWitness ==
  /\ Len(admitted) >= 3
  /\ admitted[3].time > admitted[1].time
  /\ 3 * ONE = max_capacity * ONE + rate * (admitted[3].time - admitted[1].time)
  /\ Cardinality({admitted[k].task : k \in 1..3}) = 3

\* C3 -- mutual exclusion: at most one acquire() call is between obtaining
\* the lock and releasing it, and a call in the deficit wait is that one.
MutualExclusion ==
  /\ Cardinality({t \in Tasks : granted[t]}) <= 1
  /\ \A t \in Tasks : pc[t] = "sleeping" => granted[t]
  /\ (\E t \in Tasks : granted[t]) => locked

\* one call sleeps under the lock while a worker is blocked in lock.acquire
\* for a second call and a third is queued behind it
MutualExclusionWitness ==
  \E t, u \in Tasks :
    /\ t # u
    /\ pc[t] = "sleeping" /\ granted[t]
    /\ u \in running /\ pc[u] = "awaitLock"
    /\ queue # <<>>

\* C4 -- no starvation: with rate > 0, fair scheduling and no cancellation,
\* every acquire() call that is started eventually returns.
NoStarvation ==
  \A t \in Tasks : InAcquire(t) ~> (pc[t] = "idle")

\* every call allowed has been admitted, one of them after a deficit wait and
\* one after queueing behind the pool's workers
NoStarvationWitness ==
  /\ Len(admitted) = MaxCalls
  /\ \E k \in 1..Len(admitted) : admitted[k].slept
  /\ \A t \in Tasks : pc[t] = "idle"
  /\ Cardinality({admitted[k].task : k \in 1..Len(admitted)}) = NumTasks

\* C5 -- burst admission: on a fresh limiter of capacity N the first N calls
\* made at the instant of construction are admitted without the deficit
\* sleep; the (N+1)th made at that instant sleeps the whole of 1/rate and is
\* not admitted before 1/rate has elapsed.
BurstAdmission ==
  /\ \A k \in 1..Len(admitted) :
       /\ (k <= max_capacity /\ admitted[k].start = 0) => ~admitted[k].slept
       /\ (k = max_capacity + 1 /\ admitted[k].start = 0) =>
             admitted[k].slept /\ admitted[k].time * rate >= ONE
  /\ \A t \in Tasks :
       (pc[t] = "sleeping" /\ sleepStart[t] = 0) =>
          Len(admitted) = max_capacity /\ waitNum[t] = ONE

\* capacity 2: two calls admitted at time 0, the third entered at time 0 and
\* was admitted exactly 1/rate later
BurstAdmissionWitness ==
  /\ max_capacity = 2
  /\ Len(admitted) >= 3
  /\ admitted[2].time = 0
  /\ admitted[3].start = 0
  /\ admitted[3].slept
  /\ admitted[3].time * rate = ONE

\* C6 as stated -- idle replenishment: after a gap of D in which no call held
\* the lock, the first _update_token_count of the next call sets tokens to
\* min(max_capacity, tokens_before + D * rate).
IdleReplenishmentAsStated ==
  observed.at >= 0 =>
    observed.after = Min(max_capacity * ONE, observed.before + observed.idle * rate)

\* C6 amended -- the first _update_token_count of a call sets tokens to
\* min(max_capacity, tokens_before + E * rate) where E is the time since the
\* previous _update_token_count; E is never less than the idle gap D; and
\* when E * rate reaches max_capacity the tokens are max_capacity and the
\* call is admitted without sleeping.
IdleReplenishment ==
  observed.at >= 0 =>
    /\ observed.after = Min(max_capacity * ONE, observed.before + observed.since * rate)
    /\ observed.idle <= observed.since
    /\ observed.since * rate >= max_capacity * ONE =>
         observed.after = max_capacity * ONE /\ ~observed.sleeps

\* an empty bucket, an idle gap long enough to fill it, and a call that finds
\* it full and is admitted at once
IdleReplenishmentWitness ==
  /\ observed.at >= 0
  /\ observed.before = 0
  /\ observed.idle > 0
  /\ observed.idle = observed.since
  /\ observed.idle * rate > max_capacity * ONE
  /\ observed.after = max_capacity * ONE
  /\ admitted # <<>>
  /\ Last(admitted).time = observed.at
  /\ ~Last(admitted).slept

\* C7 -- cancellation in the deficit wait: the step that cancels a sleeping
\* call leaves the lock free, and every call that is started still ends:
\* it is admitted, unless it is itself cancelled in its own wait.
CancelledWaitReleases ==
  /\ [][\A t \in Tasks : (pc[t] = "sleeping" /\ pc'[t] = "cancelled") => ~locked']_vars
  /\ \A t \in Tasks : InAcquire(t) ~> (pc[t] \in {"idle", "cancelled"})

\* a call was cancelled in its wait and another call that entered after it
\* slept and was admitted
CancelledWaitReleasesWitness ==
  \E t \in Tasks : \E k \in 1..Len(admitted) :
    /\ pc[t] = "cancelled"
    /\ admitted[k].task # t
    /\ admitted[k].slept
    /\ admitted[k].start >= sleepStart[t]

\* C8 -- cancellation while waiting for the lock: the lock is never left held
\* by a lock.acquire whose caller is gone.
NoOrphanedLock ==
  locked => \E t \in Tasks : granted[t] /\ InAcquire(t)

\* C9 -- configuration validation: no limiter exists with rate <= 0 or
\* max_capacity < 1.
ValidConfiguration ==
  rate > 0 /\ max_capacity >= 1

\* C10 -- steady-state rate: under sustained demand and no scheduler delay
\* every admission that had to wait comes exactly 1/rate after the one before
\* it, every admission after the first max_capacity has to wait, and the
\* number of admissions stays within max_capacity of rate * T.
SteadyRate ==
  /\ \A k \in 2..Len(admitted) :
       admitted[k].slept => (admitted[k].time - admitted[k - 1].time) * rate = ONE
  /\ \A k \in 1..Len(admitted) : admitted[k].slept <=> k > max_capacity
  /\ Len(admitted) * ONE <= rate * clock + max_capacity * ONE
  /\ Len(admitted) * ONE >= rate * clock - max_capacity * ONE

\* the burst is spent and two further admissions followed, 1/rate apart
SteadyRateWitness ==
  /\ Len(admitted) >= max_capacity + 2
  /\ Last(admitted).slept
  /\ Last(admitted).time * rate = (Len(admitted) - max_capacity) * ONE

\* the step is a step of t's acquire() under the lock: an update, with or
\* without the debit, or the release on cancellation
HolderStep(t) == granted[t] /\ InAcquire(t) /\ pc'[t] # pc[t]

\* C11 -- lock held across the wait: while a call is suspended in
\* _wait_for_next_token no other call leaves its wait for the lock to run
\* an update or a debit, and tokens and lastUpdate change only in the
\* sleeper's own second update and debit.
LockHeldAcrossWait ==
  [][\A t \in Tasks : pc[t] = "sleeping" =>
       /\ \A u \in Tasks \ {t} : pc[u] = "awaitLock" => pc'[u] \in {"awaitLock", "cancelled"}
       /\ observed' = observed
       /\ (tokens' # tokens \/ lastUpdate' # lastUpdate) => pc'[t] = "idle"
       /\ admitted' # admitted =>
            /\ Len(admitted') = Len(admitted) + 1
            /\ Last(admitted').task = t
            /\ pc'[t] = "idle"]_vars

\* a call has slept, taken its own debit and released the lock while a worker
\* was blocked in lock.acquire for another call the whole time
LockHeldAcrossWaitWitness ==
  /\ admitted # <<>>
  /\ Last(admitted).slept
  /\ Last(admitted).time = clock
  /\ ~locked
  /\ \E u \in running : pc[u] = "awaitLock" /\ u # Last(admitted).task
  /\ lastUpdate = clock

\* C12 -- sufficient wait: when a call that slept deficit/rate resumes, the
\* clock has advanced by at least that much, the second _update_token_count
\* gives at least one token, the call is debited in that same step (one wait
\* is enough) and the debit leaves tokens >= 0.
SufficientWait ==
  [][\A t \in Tasks : (pc[t] = "sleeping" /\ pc'[t] # "sleeping" /\ pc'[t] # "cancelled") =>
       /\ (clock - sleepStart[t]) * rate >= waitNum[t]
       /\ tokens + (clock - lastUpdate) * rate >= ONE
       /\ pc'[t] = "idle"
       /\ tokens' >= 0
       /\ tokens' = Min(tokens + (clock - lastUpdate) * rate, max_capacity * ONE) - ONE]_vars

\* a call that found half a token slept for the other half and was admitted
\* at the instant the sleep ended, leaving the bucket empty
SufficientWaitWitness ==
  /\ admitted # <<>>
  /\ Last(admitted).slept
  /\ waitNum[Last(admitted).task] = 1
  /\ sleepStart[Last(admitted).task] = Last(admitted).start
  /\ (Last(admitted).time - Last(admitted).start) * rate = 1
  /\ tokens = 0
  /\ lastUpdate = Last(admitted).time

\* C13 -- tokens and lastUpdate are mutated only under the lock and together:
\* a step that changes either is a step of the one call holding the lock, it
\* sets lastUpdate to the clock, and it sets tokens to the refilled count,
\* less one token when the step admits the call.
MutatedUnderLockTogether ==
  [][(tokens' # tokens \/ lastUpdate' # lastUpdate) =>
       /\ locked
       /\ \E t \in Tasks :
            /\ HolderStep(t)
            /\ \A u \in Tasks \ {t} : pc'[u] = pc[u]
       /\ lastUpdate' = clock
       /\ \/ tokens' = Min(tokens + (clock - lastUpdate) * rate, max_capacity * ONE)
               /\ admitted' = admitted
          \/ tokens' = Min(tokens + (clock - lastUpdate) * rate, max_capacity * ONE) - ONE
               /\ Len(admitted') = Len(admitted) + 1]_vars

\* after an idle gap a call was admitted without sleeping: its one step under
\* the lock moved lastUpdate to the clock and changed tokens with it
MutatedUnderLockTogetherWitness ==
  /\ admitted # <<>>
  /\ ~Last(admitted).slept
  /\ Last(admitted).time = clock
  /\ observed.at = clock
  /\ observed.since > 0
  /\ lastUpdate = clock
  /\ tokens # observed.before
  /\ ~locked

\* C14 -- lazy refill: a clock advance changes neither tokens nor lastUpdate,
\* the two change only in a step of an acquire() call, at a fixed clock, and
\* the tokens of the gap are credited by the next _update_token_count.
LazyRefill ==
  /\ [][clock' # clock => (tokens' = tokens /\ lastUpdate' = lastUpdate)]_vars
  /\ [][(tokens' # tokens \/ lastUpdate' # lastUpdate) =>
          /\ clock' = clock
          /\ \E t \in Tasks : InAcquire(t) /\ pc'[t] # pc[t]]_vars
  /\ [][observed' # observed =>
          observed'.after = Min(tokens + (clock - lastUpdate) * rate, max_capacity * ONE)]_vars

\* the clock has moved on over an empty bucket with no call in progress, and
\* the stored count is still the one the last debit left
LazyRefillWitness ==
  /\ admitted # <<>>
  /\ clock > lastUpdate
  /\ lastUpdate = Last(admitted).time
  /\ tokens = 0
  /\ (clock - lastUpdate) * rate >= ONE
  /\ \A t \in Tasks : ~InAcquire(t)

\* C15 -- lastUpdate is non-decreasing and never ahead of the clock, and the
\* step of an update leaves it equal to the clock reading the update used.
LastUpdateMonotonic ==
  /\ [][lastUpdate' >= lastUpdate]_vars
  /\ [][lastUpdate' <= clock']_vars
  /\ [][(observed' # observed \/ admitted' # admitted \/ tokens' # tokens) =>
          lastUpdate' = clock /\ clock' = clock]_vars
  /\ [][observed' # observed =>
          observed'.at = lastUpdate' /\ observed'.since = lastUpdate' - lastUpdate]_vars

\* lastUpdate has moved forward twice, to the times of two admissions
LastUpdateMonotonicWitness ==
  /\ Len(admitted) >= 2
  /\ admitted[1].time > 0
  /\ admitted[2].time > admitted[1].time
  /\ lastUpdate = admitted[2].time
  /\ Len(admitted) = 2

\* C16 -- wait precondition: a call is in _wait_for_next_token only with
\* tokens < 1 left by its first update, its deficit 1 - tokens is in (0, 1]
\* and its wait time deficit/rate is in (0, 1/rate].
WaitPrecondition ==
  \A t \in Tasks : pc[t] = "sleeping" =>
    /\ tokens < ONE
    /\ waitNum[t] = ONE - tokens
    /\ 0 < waitNum[t] /\ waitNum[t] <= ONE
    /\ observed.sleeps /\ observed.after = tokens /\ observed.at = sleepStart[t]
    /\ lastUpdate = sleepStart[t]

\* a call has just entered the wait with a deficit of half a token
WaitPreconditionWitness ==
  \E t \in Tasks :
    /\ pc[t] = "sleeping"
    /\ waitNum[t] = 1
    /\ sleepStart[t] = clock
    /\ clock > 0

\* C17 -- a bounded pool does not deadlock admission: with the pool
\* saturated the holder's release takes no pool worker, and every queued or
\* blocked caller is eventually admitted.
SaturatedPoolAdmits ==
  /\ [][(PoolSaturated /\ locked /\ ~locked') => (queue' = queue /\ running' = running)]_vars
  /\ \A t \in Tasks :
       (PoolSaturated /\ (t \in Range(queue) \/ t \in running)) ~> (pc[t] = "idle")

\* a call whose lock request sat in a saturated pool while the holder slept
\* has got the lock, waited out its own deficit and been admitted
SaturatedPoolAdmitsWitness ==
  \E k \in 2..Len(admitted) :
    /\ admitted[k].stalled
    /\ admitted[k].slept
    /\ admitted[k - 1].slept
    /\ admitted[k].start = admitted[k - 1].time

\* C18 -- a cancelled acquire() consumes no token: the step that cancels a
\* call, at either suspension point, changes neither tokens nor the debits,
\* and every call started is in progress, cancelled, or returned with
\* exactly one debit.
CancelConsumesNoToken ==
  /\ [][\A t \in Tasks : (pc[t] # "cancelled" /\ pc'[t] = "cancelled") =>
          (tokens' = tokens /\ admitted' = admitted /\ lastUpdate' = lastUpdate)]_vars
  /\ [][Len(admitted') - Len(admitted) =
          Cardinality({t \in Tasks : InAcquire(t) /\ pc'[t] = "idle"})]_vars
  /\ [][Len(admitted') # Len(admitted) => tokens' + ONE <= max_capacity * ONE]_vars

\* one call was cancelled waiting for the lock, another in its deficit wait,
\* and the bucket still holds what the last debit and update left
CancelConsumesNoTokenWitness ==
  \E t, u \in Tasks :
    /\ t # u
    /\ pc[t] = "cancelled" /\ granted[t]
    /\ pc[u] = "cancelled" /\ waitNum[u] > 0 /\ sleepStart[u] = lastUpdate
    /\ tokens = ONE - waitNum[u]
    /\ admitted # <<>>

====
